---- MODULE Spec2Model ----
(***************************************************************************)
(* A model of package movers (nycmonkey/movers): Date validation, the     *)
(* locator built by dataURL, the table parser (parseTable / trToStock)    *)
(* and the locking protocol of cache.Get.                                  *)
(***************************************************************************)
EXTENDS Integers, Sequences, FiniteSets, TLC

VARIABLES
    \* ---- cache.Get: one entry per goroutine calling Get
    pc,         \* position of each caller inside cache.Get
    list,       \* argument list of the call
    date,       \* argument d of the call
    addr,       \* local addr: the locator, which is the map key
    res,        \* local res: the *http.Response of netClient.Get
    results,    \* named result "results"
    err,        \* named result "err"
    cmu,        \* owner of cache.Mutex (0 = unlocked)
    cdata,      \* cache.data: key -> cached{Mutex, data}
    calls,      \* Get calls started so far
    sent,       \* requests netClient.Get has sent in the current call of each caller
    succeeded,  \* locators for which some Get has fetched and returned no error
    failed,     \* locators whose most recently finished Get returned an error
    \* ---- NewDate / Validate / dataURL applied to one input
    now,        \* time.Now().Year()
    dpc,        \* "input", "validated", "located"
    dlist,      \* the list handed to dataURL
    din,        \* the (year, month, day) handed to NewDate
    dout,       \* the Date NewDate returned
    derr,       \* the error NewDate returned
    durl,       \* the url dataURL returned
    durlerr,    \* the error dataURL returned
    \* ---- parseTable applied to one document
    ppc,        \* "input", "parsed"
    pdoc,       \* the document read from the io.Reader
    pout,       \* what parseTable returned: [results, err]
    \* ---- one request served by handleGainers / handleLosers
    hpc,        \* "start", "dated", "got", "written", "panicked"
    hlist,      \* the list of the handler the route selected
    hpath,      \* mux.Vars(r): the year, month and day segments of the path
    hd,         \* local d
    herr,       \* local err
    hstocks,    \* local stocks
    hgets,      \* calls of s.g.Get made for the request
    hstatus,    \* status code of the response (0 while no header is written)
    hbody       \* what was written to the body, in order

cvars == <<pc, list, date, addr, res, results, err, cmu, cdata, calls, sent,
           succeeded, failed>>
dvars == <<dpc, dlist, din, dout, derr, durl, durlerr>>
pvars == <<ppc, pdoc, pout>>
hvars == <<hpc, hlist, hpath, hd, herr, hstocks, hgets, hstatus, hbody>>
vars  == <<cvars, now, dvars, pvars, hvars>>

----------------------------------------------------------------------------
(* Bounds of the model *)

YearLo == 2009      \* years tried: YearLo .. YearHi
YearHi == 2022
NowLo == 2020       \* clock readings tried: NowLo .. NowHi
NowHi == 2021
MonthHi == 13       \* months tried: 0 .. MonthHi
DayHi == 32         \* days tried: 0 .. DayHi

(* Program constants *)

MinYear == 2010
MaxDay == 31
Columns == 6

NoErr == "nil"
ErrYear == "invalid year"
ErrDay == "invalid day"
ErrWeekend == "Movers data is not available on weekends"

USCompositeGainers == "gaincomp-gainer"
USCompositeLosers == "losecomp-loser"
MoverLists == {USCompositeGainers, USCompositeLosers}

----------------------------------------------------------------------------
(* time.Date and Time.Weekday of the standard library, for a midnight UTC  *)
(* time: the month is normalised into the year, the day is added to the    *)
(* days before the month, so any int month and day denote some day.        *)

Sunday == 0
Saturday == 6

IsLeap(y) == y % 4 = 0 /\ (y % 100 # 0 \/ y % 400 = 0)

\* norm(year, month-1, 12): the year after the month is brought into 0..11
NormYear(y, m) ==
    IF m - 1 < 0 THEN y - (((0 - (m - 1)) - 1) \div 12 + 1)
    ELSE IF m - 1 >= 12 THEN y + ((m - 1) \div 12)
    ELSE y

\* the month, 1..12, after normalisation
NormMonth(m) == ((m - 1) % 12) + 1

DaysBefore(m) ==
    CASE m = 1 -> 0 [] m = 2 -> 31 [] m = 3 -> 59 [] m = 4 -> 90
      [] m = 5 -> 120 [] m = 6 -> 151 [] m = 7 -> 181 [] m = 8 -> 212
      [] m = 9 -> 243 [] m = 10 -> 273 [] m = 11 -> 304 [] m = 12 -> 334

\* days from 1 January of year 1 (a Monday) to 1 January of year y
DaysSinceEpoch(y) ==
    365 * (y - 1) + ((y - 1) \div 4) - ((y - 1) \div 100) + ((y - 1) \div 400)

\* time.Date(year, month, day, 0, 0, 0, 0, time.UTC) as a day number
TimeDate(y, m, d) ==
    LET yy == NormYear(y, m)
        mm == NormMonth(m)
    IN  DaysSinceEpoch(yy) + DaysBefore(mm)
          + (IF IsLeap(yy) /\ mm >= 3 THEN 1 ELSE 0) + (d - 1)

WeekdayWrong(t) == (t + 2) % 7

\* t.Weekday(): 0 = Sunday .. 6 = Saturday
Weekday(t) == (t + 1) % 7

----------------------------------------------------------------------------
(* Date, NewDate, Validate, dataURL *)

MkDate(y, m, d) == [Year |-> y, Month |-> m, Day |-> d]

ValidateDay30(d, clock) ==
    IF d.Year > clock \/ d.Year < MinYear THEN ErrYear
    ELSE IF d.Day < 1 \/ d.Day > 30 THEN ErrDay
    ELSE IF Weekday(TimeDate(d.Year, d.Month, d.Day)) \in {Saturday, Sunday}
         THEN ErrWeekend
    ELSE NoErr

\* (d *Date) Validate() with time.Now().Year() = clock
Validate(d, clock) ==
    IF d.Year > clock \/ d.Year < MinYear THEN ErrYear
    ELSE IF d.Day < 1 \/ d.Day > MaxDay THEN ErrDay
    ELSE IF Weekday(TimeDate(d.Year, d.Month, d.Day)) \in {Saturday, Sunday}
         THEN ErrWeekend
    ELSE NoErr

\* NewDate(year, month, day): the Date is returned whatever Validate says
NewDate(y, m, d, clock) ==
    [d |-> MkDate(y, m, d), err |-> Validate(MkDate(y, m, d), clock)]

NoURL == <<>>

\* decimal digits of n >= 0, most significant first
RECURSIVE Digits(_)
Digits(n) == IF n < 10 THEN <<n>> ELSE Digits(n \div 10) \o <<n % 10>>

\* fmt verbs %d and %02d for n >= 0
FmtD(n) == Digits(n)
Fmt02D(n) == IF n < 10 THEN <<0>> \o Digits(n) ELSE Digits(n)

\* fmt.Sprintf(string(list), d.Year, int(d.Month), d.Day): the list's template
\* with the three numbers substituted
Sprintf(l, d) == <<l>> \o FmtD(d.Year) \o Fmt02D(d.Month) \o Fmt02D(d.Day)

\* dataURL(list, d)
dataURL(l, d, clock) ==
    IF Validate(d, clock) # NoErr
    THEN [url |-> NoURL, err |-> Validate(d, clock)]
    ELSE [url |-> Sprintf(l, d), err |-> NoErr]

----------------------------------------------------------------------------
(* Text.  A string is a sequence of runes, a rune a one-character string;  *)
(* "1/2" stands for the rune U+00BD, a number that is not a decimal digit. *)
(* The texts of the model hold no newline, so "." of the pattern matches   *)
(* every rune of them.                                                     *)

DigitRunes == {"0", "1", "2", "3", "4", "5", "6", "7", "8", "9"}

DigitVal(c) ==
    CASE c = "0" -> 0 [] c = "1" -> 1 [] c = "2" -> 2 [] c = "3" -> 3
      [] c = "4" -> 4 [] c = "5" -> 5 [] c = "6" -> 6 [] c = "7" -> 7
      [] c = "8" -> 8 [] c = "9" -> 9

\* unicode.IsNumber(r)
IsNumber(c) == c \in DigitRunes \cup {"1/2"}

\* unicode.IsSpace, the \s of the pattern
IsSpace(c) == c \in {" ", "\t"}

\* the predicate of filterNonNumeric, negated: the runes RemoveFunc keeps
Keeps(c) == c \in {"-", "."} \/ IsNumber(c)

\* filterNonNumeric.Transform(b, []byte(t), true); string(b[:n])
RECURSIVE filterNonNumeric(_)
filterNonNumeric(t) ==
    IF t = <<>> THEN <<>>
    ELSE (IF Keeps(Head(t)) THEN <<Head(t)>> ELSE <<>>) \o filterNonNumeric(Tail(t))

SubStr(t, i, j) == [k \in 1..(j - i + 1) |-> t[i + k - 1]]

\* nameAndSymbolPattern.FindStringSubmatch(t) for (.+)\s\((.+)\): both groups
\* are greedy, so the name ends at the last "\s(" that still has a rune and
\* a ")" after it and the ticker ends at the last ")".  <<>> when no match.
FindStringSubmatch(t) ==
    LET closes == {j \in 1..Len(t) : t[j] = ")"}
        last == IF closes = {} THEN 0
                ELSE CHOOSE j \in closes : \A k \in closes : k <= j
        seps == {k \in 2..Len(t) : /\ k + 1 <= Len(t)
                                   /\ IsSpace(t[k]) /\ t[k + 1] = "("
                                   /\ last >= k + 3}
        sep == CHOOSE k \in seps : \A x \in seps : x <= k
    IN  IF seps = {} THEN <<>>
        ELSE <<SubStr(t, 1, last), SubStr(t, 1, sep - 1), SubStr(t, sep + 2, last - 1)>>

RECURSIVE DigitsValue(_)
DigitsValue(t) ==
    IF t = <<>> THEN 0 ELSE 10 * DigitsValue(SubStr(t, 1, Len(t) - 1)) + DigitVal(t[Len(t)])

Unsigned(t) == IF t # <<>> /\ Head(t) \in {"-", "+"} THEN Tail(t) ELSE t

Negative(t) == t # <<>> /\ Head(t) = "-"

ErrAtoi == "strconv.Atoi: invalid syntax"
ErrFloat == "strconv.ParseFloat: invalid syntax"

\* strconv.Atoi(t): an optional sign, then one or more decimal digits
Atoi(t) ==
    LET u == Unsigned(t)
    IN  IF u = <<>> \/ \E i \in 1..Len(u) : u[i] \notin DigitRunes
        THEN [v |-> 0, err |-> ErrAtoi]
        ELSE [v |-> IF Negative(t) THEN 0 - DigitsValue(u) ELSE DigitsValue(u),
              err |-> NoErr]

\* a decimal: mant / 10^scale, with no trailing zero in the fraction
RECURSIVE Decimal(_, _)
Decimal(mant, scale) ==
    IF scale > 0 /\ mant % 10 = 0 THEN Decimal(mant \div 10, scale - 1)
    ELSE [mant |-> mant, scale |-> scale]

\* strconv.ParseFloat(t, 64) for the texts the filter can leave: an optional
\* sign, then decimal digits with at most one ".", at least one digit
ParseFloat(t) ==
    LET u == Unsigned(t)
        dots == {i \in 1..Len(u) : u[i] = "."}
        digs == {i \in 1..Len(u) : u[i] \in DigitRunes}
        dot == CHOOSE i \in dots : TRUE
        whole == IF dots = {} THEN u
                 ELSE SubStr(u, 1, dot - 1) \o SubStr(u, dot + 1, Len(u))
        scale == IF dots = {} THEN 0 ELSE Len(u) - dot
    IN  IF digs = {} \/ Cardinality(dots) > 1
           \/ Cardinality(dots) + Cardinality(digs) # Len(u)
        THEN [v |-> Decimal(0, 0), err |-> ErrFloat]
        ELSE [v |-> Decimal(IF Negative(t) THEN 0 - DigitsValue(whole)
                            ELSE DigitsValue(whole), scale),
              err |-> NoErr]

----------------------------------------------------------------------------
(* parseTable and trToStock.  A document is [ok, tables]: ok is whether     *)
(* the reader could be read to its end, tables the <table> elements in      *)
(* document order, each [mdc, rows] with mdc = the table has class          *)
(* mdcTable and rows = its <tbody> <tr> elements, a row being the texts of  *)
(* its <td> elements in order.                                              *)

ErrRead == "read error"
ErrPanic == "panic: slice bounds out of range"
ErrColumns == "expected 6 columns"
ErrPattern == "expected stock name and ticker regex match to have 3 elements"

NoStock == [Ticker |-> <<>>, Name |-> <<>>, Price |-> Decimal(0, 0),
            PctChange |-> Decimal(0, 0), Volume |-> 0]

\* sel.Find("td").Map(...): the text of cell 1, the filtered text of the others
CellTexts(row) ==
    [i \in 1..Len(row) |-> IF i = 2 THEN row[i] ELSE filterNonNumeric(row[i])]

\* trToStock(sel): indices are Go's plus one
trToStock(row) ==
    LET data == CellTexts(row)
        matches == FindStringSubmatch(data[2])
        named == [NoStock EXCEPT !.Name = matches[2], !.Ticker = matches[3]]
        vol == Atoi(data[6])
        price == ParseFloat(data[3])
        pct == ParseFloat(data[5])
    IN  IF Len(data) # Columns THEN [s |-> NoStock, err |-> ErrColumns]
        ELSE IF Len(matches) # 3 THEN [s |-> NoStock, err |-> ErrPattern]
        ELSE IF vol.err # NoErr
             THEN [s |-> [named EXCEPT !.Volume = vol.v], err |-> vol.err]
        ELSE IF price.err # NoErr
             THEN [s |-> [named EXCEPT !.Volume = vol.v, !.Price = price.v],
                   err |-> price.err]
        ELSE [s |-> [named EXCEPT !.Volume = vol.v, !.Price = price.v,
                                  !.PctChange = pct.v],
              err |-> pct.err]

\* doc.Find(`table.mdcTable tbody tr`): the rows of every mdcTable table
RECURSIVE Find(_)
Find(tables) ==
    IF tables = <<>> THEN <<>>
    ELSE (IF Head(tables).mdc THEN Head(tables).rows ELSE <<>>) \o Find(Tail(tables))

\* EachWithBreak over the selection, results being the named result so far
RECURSIVE EachWithBreak(_, _)
EachWithBreak(rows, acc) ==
    IF rows = <<>> THEN [results |-> acc, err |-> NoErr]
    ELSE LET r == trToStock(Head(rows))
         IN  IF r.err # NoErr THEN [results |-> acc, err |-> r.err]
             ELSE EachWithBreak(Tail(rows), Append(acc, r.s))

parseTableNoSkip(doc) ==
    IF ~doc.ok THEN [results |-> <<>>, err |-> ErrRead]
    ELSE IF Find(doc.tables) = <<>> THEN [results |-> <<>>, err |-> ErrPanic]
    ELSE EachWithBreak(Find(doc.tables), <<>>)

\* parseTable(data).  Slice(1, goquery.ToEnd) of an empty selection is
\* s.Nodes[1:0], which panics.
parseTable(doc) ==
    IF ~doc.ok THEN [results |-> <<>>, err |-> ErrRead]
    ELSE IF Find(doc.tables) = <<>> THEN [results |-> <<>>, err |-> ErrPanic]
    ELSE EachWithBreak(Tail(Find(doc.tables)), <<>>)

----------------------------------------------------------------------------
(* Values the variables of an operation hold while another one is studied *)

NoDate == MkDate(0, 0, 0)
NoOut == [results |-> <<>>, err |-> NoErr]

CacheIdle ==
    /\ pc = <<>> /\ list = <<>> /\ date = <<>> /\ addr = <<>> /\ res = <<>>
    /\ results = <<>> /\ err = <<>> /\ cmu = 0 /\ cdata = <<>> /\ calls = 0
    /\ sent = <<>>
    /\ succeeded = {} /\ failed = {}

DateIdle ==
    /\ dpc = "idle" /\ dlist = USCompositeGainers /\ din = NoDate /\ dout = NoDate
    /\ derr = NoErr /\ durl = NoURL /\ durlerr = NoErr

ParseIdle == ppc = "idle" /\ pdoc = <<>> /\ pout = NoOut

NoPath == [year |-> <<>>, month |-> <<>>, day |-> <<>>]

HandlerIdle ==
    /\ hpc = "idle" /\ hlist = USCompositeGainers /\ hpath = NoPath /\ hd = NoDate
    /\ herr = NoErr /\ hstocks = <<>> /\ hgets = 0 /\ hstatus = 0 /\ hbody = <<>>

----------------------------------------------------------------------------
(* SpecDate: NewDate, then dataURL, applied to every triple of the bounds *)

DateInputs ==
    {MkDate(y, m, d) : y \in YearLo..YearHi, m \in 0..MonthHi, d \in 0..DayHi}

DateInit ==
    /\ now \in NowLo..NowHi
    /\ dpc = "input"
    /\ dlist \in MoverLists
    /\ din \in DateInputs
    /\ dout = NoDate /\ derr = NoErr /\ durl = NoURL /\ durlerr = NoErr
    /\ CacheIdle /\ ParseIdle /\ HandlerIdle

\* d, err := NewDate(year, month, day)
DoNewDate ==
    /\ dpc = "input"
    /\ dout' = NewDate(din.Year, din.Month, din.Day, now).d
    /\ derr' = NewDate(din.Year, din.Month, din.Day, now).err
    /\ dpc' = "validated"
    /\ UNCHANGED <<dlist, din, durl, durlerr, cvars, now, pvars, hvars>>

\* url, err := dataURL(list, d), as cache.Get and the handlers call it: with
\* the Date NewDate returned, whatever error came with it
DoDataURL ==
    /\ dpc = "validated"
    /\ durl' = dataURL(dlist, dout, now).url
    /\ durlerr' = dataURL(dlist, dout, now).err
    /\ dpc' = "located"
    /\ UNCHANGED <<dlist, din, dout, derr, cvars, now, pvars, hvars>>

DateNext == DoNewDate \/ DoDataURL

----------------------------------------------------------------------------
(* The calendar, stated independently of time.Date *)

DaysIn(y, m) ==
    IF m = 2 THEN (IF IsLeap(y) THEN 29 ELSE 28)
    ELSE IF m \in {4, 6, 9, 11} THEN 30 ELSE 31

IsRealDate(d) == d.Month \in 1..12 /\ d.Day \in 1..DaysIn(d.Year, d.Month)

\* Zeller's congruence, turned to 0 = Sunday .. 6 = Saturday
ZellerWeekday(d) ==
    LET m == IF d.Month < 3 THEN d.Month + 12 ELSE d.Month
        y == IF d.Month < 3 THEN d.Year - 1 ELSE d.Year
        K == y % 100
        J == y \div 100
        h == (d.Day + ((13 * (m + 1)) \div 5) + K + (K \div 4) + (J \div 4) + 5 * J) % 7
    IN  (h + 6) % 7

YearInRange(d, clock) == d.Year >= MinYear /\ d.Year <= clock

\* the Date invariant of the data model
DateInvariant(d, clock) ==
    /\ IsRealDate(d)
    /\ YearInRange(d, clock)
    /\ ZellerWeekday(d) \in 1..5

\* C5: Validate (and NewDate) fails for every triple that is not a real
\* Gregorian calendar date (a day the month does not have, a month outside
\* 1..12), also when the year is in range and the normalised date is a weekday.
C5_NonexistentDateRejected ==
    (dpc # "input" /\ ~IsRealDate(din)) => derr # NoErr

\* C6: for every real calendar date with 2010 <= year <= current year that
\* falls on Monday..Friday, NewDate succeeds and returns a Date with exactly
\* the given year, month and day.
C6_WeekdayAccepted ==
    (dpc # "input" /\ DateInvariant(din, now)) => (derr = NoErr /\ dout = din)

C6_Witness ==
    dpc = "validated" /\ DateInvariant(din, now) /\ din.Day = 31 /\ derr = NoErr

\* C7: for every real calendar date with 2010 <= year <= current year that
\* falls on a Saturday or a Sunday, Validate fails with the weekend error.
C7_WeekendRejected ==
    (dpc # "input" /\ IsRealDate(din) /\ YearInRange(din, now)
        /\ ZellerWeekday(din) \in {Sunday, Saturday})
    => derr = ErrWeekend

C7_Witness ==
    /\ dpc = "validated" /\ IsRealDate(din) /\ YearInRange(din, now)
    /\ ZellerWeekday(din) = Sunday /\ derr = ErrWeekend

\* C8: dataURL never returns a locator for a Date that violates the Date
\* invariant: for every such date it returns an error and no locator string.
C8_NoLocatorForInvalidDate ==
    (dpc = "located" /\ ~DateInvariant(dout, now))
    => (durlerr # NoErr /\ durl = NoURL)

----------------------------------------------------------------------------
(* SpecParse: parseTable applied to every document of the bounds *)

MaxRows == 3        \* rows of a table, the header row included: 0 .. MaxRows

RankCell == <<"1">>
OtherCell == <<"x">>
NameCell == <<"A", " ", "(", "X", ")">>              \* A (X)
PriceCell == <<"$", "1", "2", ".", "3", "0">>        \* $12.30
PctCell == <<"+", "5", ".", "6", "%">>               \* +5.6%
VolumeCell == <<"1", ",", "2", "3", "4">>            \* 1,234

GoodRow == <<RankCell, NameCell, PriceCell, OtherCell, PctCell, VolumeCell>>

\* the good row with one cell replaced
DataRows ==
    { GoodRow,
      [GoodRow EXCEPT ![2] = <<"A", " ", "(", "B", ")", " ", "(", "X", ")">>],
      [GoodRow EXCEPT ![2] = <<"A", "X">>],
      [GoodRow EXCEPT ![3] = <<"n", "/", "a">>],
      [GoodRow EXCEPT ![5] = <<"-", "2", "%">>],
      [GoodRow EXCEPT ![6] = <<"-", "5">>],
      [GoodRow EXCEPT ![6] = <<"1/2">>] }

HeaderRow == <<>>    \* a row of <th> cells: no <td>

ShortRow == SubStr(GoodRow, 1, 5)
LongRow == GoodRow \o <<OtherCell>>

Rows == DataRows \cup {HeaderRow, ShortRow, LongRow}

RowSeqs == UNION {[1..n -> Rows] : n \in 0..MaxRows}

Documents ==
    {[ok |-> FALSE, tables |-> <<>>], [ok |-> TRUE, tables |-> <<>>]}
    \cup {[ok |-> TRUE, tables |-> <<[mdc |-> m, rows |-> rs]>>] :
            m \in BOOLEAN, rs \in RowSeqs}
    \cup {[ok |-> TRUE, tables |-> <<[mdc |-> TRUE, rows |-> <<HeaderRow>>],
                                     [mdc |-> FALSE, rows |-> <<GoodRow>>],
                                     [mdc |-> TRUE, rows |-> <<r>>]>>] : r \in Rows}

ParseInit ==
    /\ ppc = "input" /\ pdoc \in Documents /\ pout = NoOut
    /\ now = NowHi
    /\ CacheIdle /\ DateIdle /\ HandlerIdle

\* results, err := parseTable(res.Body)
DoParseTable ==
    /\ ppc = "input"
    /\ pout' = parseTable(pdoc)
    /\ ppc' = "parsed"
    /\ UNCHANGED <<pdoc, cvars, now, dvars, hvars>>

ParseNext == DoParseTable

\* C9: parsing never returns partial results: when a data row fails (cell
\* count other than 6, name/ticker mismatch, numeric parse failure) parseTable
\* returns the error together with an empty result, however many earlier
\* rows were parsed.
C9_NoPartialResults ==
    (ppc = "parsed" /\ pout.err # NoErr) => pout.results = <<>>

\* the rows parseTable selects from the document it was given
Selected == Find(pdoc.tables)

\* C15: a document with no row selected by table.mdcTable makes parseTable
\* return a malformed-document error: it neither succeeds with an empty
\* result nor ends without returning.
C15_NoTableIsError ==
    (ppc = "parsed" /\ pdoc.ok /\ Selected = <<>>)
    => pout.err \notin {NoErr, ErrPanic}

\* C16: for a table of n >= 1 rows whose data rows are all well-formed,
\* parseTable skips the first row and returns n-1 records, the i-th one
\* derived from row i+1, in document order.
C16_SkipsHeaderKeepsOrder ==
    (/\ ppc = "parsed" /\ pdoc.ok /\ Len(Selected) >= 1
     /\ \A i \in 2..Len(Selected) : trToStock(Selected[i]).err = NoErr)
    => /\ pout.err = NoErr
       /\ Len(pout.results) = Len(Selected) - 1
       /\ \A i \in 1..Len(pout.results) :
              pout.results[i] = trToStock(Selected[i + 1]).s

C16_Witness ==
    /\ ppc = "parsed" /\ pdoc.ok /\ Len(Selected) = 3
    /\ Selected[1] # HeaderRow
    /\ pout.err = NoErr /\ Len(pout.results) = 2
    /\ pout.results[1] # pout.results[2]

\* C17: every Stock of a successful parse has Volume >= 0: a volume cell
\* that denotes a negative integer makes the parse fail.
C17_VolumeNonNegative ==
    (ppc = "parsed" /\ pout.err = NoErr)
    => \A i \in 1..Len(pout.results) : pout.results[i].Volume >= 0

----------------------------------------------------------------------------
(* Spec: NumCallers goroutines calling cache.Get, MaxCalls calls in all *)

NumCallers == 3
MaxCalls == 3

Callers == 1..NumCallers

Monday15 == MkDate(2021, 3, 15)      \* a Monday
Saturday13 == MkDate(2021, 3, 13)    \* a Saturday
February30 == MkDate(2021, 2, 30)    \* no such day

\* the (list, d) arguments the callers pass to Get
GetInputs ==
    { <<USCompositeGainers, Monday15>>, <<USCompositeLosers, Monday15>>,
      <<USCompositeGainers, Saturday13>>, <<USCompositeGainers, February30>> }

URLs == {Sprintf(i[1], i[2]) : i \in GetInputs}

GoodRow2 == [GoodRow EXCEPT ![2] = <<"A", " ", "(", "B", ")", " ", "(", "X", ")">>]

MdcDocument(rows) == [ok |-> TRUE, tables |-> <<[mdc |-> TRUE, rows |-> rows]>>]

\* the page the site serves at a locator; a published page never changes
Published(url) ==
    IF url = Sprintf(USCompositeGainers, Monday15)
        THEN MdcDocument(<<HeaderRow, GoodRow, GoodRow2>>)
    ELSE IF url = Sprintf(USCompositeLosers, Monday15)
        THEN MdcDocument(<<HeaderRow>>)
    ELSE IF url = Sprintf(USCompositeGainers, February30)
        THEN MdcDocument(<<HeaderRow, GoodRow, ShortRow>>)
    ELSE [ok |-> TRUE, tables |-> <<>>]

StatusOK == 200

ErrNet == "Get: net/http: request canceled (Client.Timeout exceeded)"
ErrStatus == "status code error"

\* what netClient.Get(addr) returned: the status of the response (0: res is
\* nil) and the transport error; the body of a response is Published(addr)
NoRes == [StatusCode |-> 0, Error |-> NoErr]

Responses ==
    { [StatusCode |-> 0, Error |-> ErrNet],
      [StatusCode |-> 404, Error |-> NoErr],
      [StatusCode |-> StatusOK, Error |-> NoErr] }

NoEntry == [mu |-> 0, data |-> <<>>]

others == <<now, dvars, pvars, hvars>>

\* NewGetter(): an empty map, both mutexes unlocked
Init ==
    /\ pc = [p \in Callers |-> "idle"]
    /\ list = [p \in Callers |-> USCompositeGainers]
    /\ date = [p \in Callers |-> NoDate]
    /\ addr = [p \in Callers |-> NoURL]
    /\ res = [p \in Callers |-> NoRes]
    /\ results = [p \in Callers |-> <<>>]
    /\ err = [p \in Callers |-> NoErr]
    /\ cmu = 0
    /\ cdata = <<>>
    /\ calls = 0
    /\ sent = [p \in Callers |-> 0]
    /\ succeeded = {}
    /\ failed = {}
    /\ now = NowHi
    /\ DateIdle /\ ParseIdle /\ HandlerIdle

HasDataOrEmpty(val) == Len(val.data) >= 0

\* len(val.data) > 0
HasData(val) == Len(val.data) > 0

\* what a finished call leaves in the record of finished calls
Finish(p, e) ==
    /\ failed' = IF e # NoErr THEN failed \cup {addr[p]} ELSE failed \ {addr[p]}
    /\ succeeded' = IF e = NoErr /\ pc[p] = "fetching"
                    THEN succeeded \cup {addr[p]} ELSE succeeded

InsertAlways(m, k) ==
    [x \in DOMAIN m \cup {k} |-> IF x = k THEN NoEntry ELSE m[x]]

\* val, ok := c.data[addr]; if !ok { val = &cached{}; c.data[addr] = val }:
\* the map after the lookup, a key that is present keeping its entry
Insert(m, k) ==
    [x \in DOMAIN m \cup {k} |-> IF x \in DOMAIN m THEN m[x] ELSE NoEntry]

\* a goroutine calls c.Get(l, d)
Call(p, l, d) ==
    /\ pc[p] = "idle" /\ calls < MaxCalls
    /\ calls' = calls + 1
    /\ list' = [list EXCEPT ![p] = l]
    /\ date' = [date EXCEPT ![p] = d]
    /\ pc' = [pc EXCEPT ![p] = "lock"]
    /\ UNCHANGED <<addr, res, results, err, cmu, cdata, sent, succeeded, failed, others>>

LockNoUnlock(p) ==
    LET u == dataURL(list[p], date[p], now)
    IN  /\ pc[p] = "lock" /\ cmu = 0
        /\ cmu' = p
        /\ IF u.err # NoErr
           THEN /\ err' = [err EXCEPT ![p] = u.err]
                /\ pc' = [pc EXCEPT ![p] = "done"]
                /\ UNCHANGED <<addr, cdata>>
           ELSE /\ addr' = [addr EXCEPT ![p] = u.url]
                /\ cdata' = Insert(cdata, u.url)
                /\ pc' = [pc EXCEPT ![p] = "vlock"]
                /\ UNCHANGED err
        /\ UNCHANGED <<list, date, res, results, calls, sent, succeeded, failed, others>>

\* c.Lock(); addr, err = dataURL(list, d); on an error c.Unlock() and return;
\* else val, ok := c.data[addr]; if !ok { val = &cached{}; c.data[addr] = val }
\* and the caller goes on to val.Lock() with c locked
Lock(p) ==
    LET u == dataURL(list[p], date[p], now)
    IN  /\ pc[p] = "lock" /\ cmu = 0
        /\ IF u.err # NoErr
           THEN /\ err' = [err EXCEPT ![p] = u.err]
                /\ pc' = [pc EXCEPT ![p] = "done"]
                /\ UNCHANGED <<addr, cdata, cmu>>
           ELSE /\ addr' = [addr EXCEPT ![p] = u.url]
                /\ cdata' = Insert(cdata, u.url)
                /\ cmu' = p
                /\ pc' = [pc EXCEPT ![p] = "vlock"]
                /\ UNCHANGED err
        /\ UNCHANGED <<list, date, res, results, calls, sent, succeeded, failed, others>>

LockEntryNoWait(p) ==
    /\ pc[p] = "vlock"
    /\ cdata' = [cdata EXCEPT ![addr[p]].mu = p]
    /\ cmu' = 0
    /\ pc' = [pc EXCEPT ![p] = "check"]
    /\ UNCHANGED <<list, date, addr, res, results, err, calls, sent, succeeded,
                   failed, others>>

\* val.Lock() returns; c.Unlock(); defer val.Unlock()
LockEntry(p) ==
    /\ pc[p] = "vlock" /\ cdata[addr[p]].mu = 0
    /\ cdata' = [cdata EXCEPT ![addr[p]].mu = p]
    /\ cmu' = 0
    /\ pc' = [pc EXCEPT ![p] = "check"]
    /\ UNCHANGED <<list, date, addr, res, results, err, calls, sent, succeeded,
                   failed, others>>

\* if len(val.data) > 0 { results = val.data; return }; otherwise
\* netClient.Get(addr) sends its request
Check(p) ==
    /\ pc[p] = "check"
    /\ IF HasData(cdata[addr[p]])
       THEN /\ results' = [results EXCEPT ![p] = cdata[addr[p]].data]
            /\ cdata' = [cdata EXCEPT ![addr[p]].mu = 0]
            /\ pc' = [pc EXCEPT ![p] = "done"]
            /\ Finish(p, NoErr)
            /\ UNCHANGED sent
       ELSE /\ pc' = [pc EXCEPT ![p] = "fetching"]
            /\ sent' = [sent EXCEPT ![p] = @ + 1]
            /\ UNCHANGED <<results, cdata, failed, succeeded>>
    /\ UNCHANGED <<list, date, addr, res, err, cmu, calls, others>>

\* parseTable of each page of the site, computed once
ParsedPage == [u \in URLs |-> parseTable(Published(u))]

OutcomeIgnoringStatus(url, r) ==
    IF r.Error # NoErr THEN [results |-> <<>>, err |-> r.Error]
    ELSE ParsedPage[url]

\* what Get(addr) returns once netClient.Get has returned r: the transport
\* error, the status check, then return parseTable(res.Body)
Outcome(url, r) ==
    IF r.Error # NoErr THEN [results |-> <<>>, err |-> r.Error]
    ELSE IF r.StatusCode # StatusOK THEN [results |-> <<>>, err |-> ErrStatus]
    ELSE ParsedPage[url]

ResponseNoUnlock(p, r) ==
    LET out == Outcome(addr[p], r)
    IN  /\ pc[p] = "fetching"
        /\ res' = [res EXCEPT ![p] = r]
        /\ results' = [results EXCEPT ![p] = out.results]
        /\ err' = [err EXCEPT ![p] = out.err]
        /\ pc' = [pc EXCEPT ![p] = "done"]
        /\ Finish(p, out.err)
        /\ UNCHANGED <<list, date, addr, cmu, cdata, calls, sent, others>>

\* netClient.Get returns; the status check; return parseTable(res.Body);
\* the deferred res.Body.Close() and val.Unlock().  val.data is not assigned.
Response(p, r) ==
    LET out == Outcome(addr[p], r)
    IN  /\ pc[p] = "fetching"
        /\ res' = [res EXCEPT ![p] = r]
        /\ results' = [results EXCEPT ![p] = out.results]
        /\ err' = [err EXCEPT ![p] = out.err]
        /\ cdata' = [cdata EXCEPT ![addr[p]].mu = 0]
        /\ pc' = [pc EXCEPT ![p] = "done"]
        /\ Finish(p, out.err)
        /\ UNCHANGED <<list, date, addr, cmu, calls, sent, others>>

\* the caller has the results; its goroutine may call Get again
Return(p) ==
    /\ pc[p] = "done"
    /\ pc' = [pc EXCEPT ![p] = "idle"]
    /\ addr' = [addr EXCEPT ![p] = NoURL]
    /\ res' = [res EXCEPT ![p] = NoRes]
    /\ results' = [results EXCEPT ![p] = <<>>]
    /\ err' = [err EXCEPT ![p] = NoErr]
    /\ list' = [list EXCEPT ![p] = USCompositeGainers]
    /\ date' = [date EXCEPT ![p] = NoDate]
    /\ sent' = [sent EXCEPT ![p] = 0]
    /\ UNCHANGED <<cmu, cdata, calls, succeeded, failed, others>>

Next ==
    \E p \in Callers :
          \/ \E i \in GetInputs : Call(p, i[1], i[2])
          \/ Lock(p)
          \/ LockEntry(p)
          \/ Check(p)
          \/ \E r \in Responses : Response(p, r)
          \/ Return(p)

Spec == Init /\ [][Next]_vars

\* The liveness of Get is studied with the inputs that decide the locking:
\* two keys and a rejected date, a fetch that fails and one that succeeds.
FairInputs ==
    { <<USCompositeGainers, Monday15>>, <<USCompositeLosers, Monday15>>,
      <<USCompositeGainers, Saturday13>> }

FairResponses ==
    { [StatusCode |-> 0, Error |-> ErrNet],
      [StatusCode |-> StatusOK, Error |-> NoErr] }

FairNext ==
    \E p \in Callers :
          \/ \E i \in FairInputs : Call(p, i[1], i[2])
          \/ Lock(p)
          \/ LockEntry(p)
          \/ Check(p)
          \/ \E r \in FairResponses : Response(p, r)
          \/ Return(p)

\* the steps of p inside Get and its return to the caller; Call is left out,
\* a goroutine being free never to call Get again
Progress(p) ==
    \/ Lock(p)
    \/ LockEntry(p)
    \/ Check(p)
    \/ \E r \in FairResponses : Response(p, r)
    \/ Return(p)

\* the scheduler runs every goroutine that can take a step, a mutex that is
\* free is handed to a goroutine waiting for it, and netClient.Get returns
\* (its Timeout bounds the request)
SpecFair == Init /\ [][FairNext]_vars /\ \A p \in Callers : WF_vars(Progress(p))

----------------------------------------------------------------------------
(* SpecHandler: one request routed to handleGainers or handleLosers *)

StatusBadRequest == 400
StatusFailedDependency == 424

\* the route patterns 20[0-9]{2}, [01]?[0-9] and [0-3]?[0-9]
YearPattern(t) ==
    /\ Len(t) = 4 /\ t[1] = "2" /\ t[2] = "0"
    /\ t[3] \in DigitRunes /\ t[4] \in DigitRunes

MonthPattern(t) ==
    \/ Len(t) = 1 /\ t[1] \in DigitRunes
    \/ Len(t) = 2 /\ t[1] \in {"0", "1"} /\ t[2] \in DigitRunes

DayPattern(t) ==
    \/ Len(t) = 1 /\ t[1] \in DigitRunes
    \/ Len(t) = 2 /\ t[1] \in {"0", "1", "2", "3"} /\ t[2] \in DigitRunes

\* path segments tried; the router passes a request on only when all three
\* match their pattern
YearTexts == { <<"2", "0", "2", "1">>, <<"2", "0", "0", "9">>, <<"1", "9", "9", "9">> }
MonthTexts == { <<"3">>, <<"0", "3">>, <<"2">>, <<"1", "3">>, <<"2", "3">> }
DayTexts == { <<"1", "5">>, <<"1", "3">>, <<"3", "0">>, <<"0">>, <<"4", "0">>, <<>> }

Routed ==
    { [year |-> y, month |-> m, day |-> d] :
          y \in {t \in YearTexts : YearPattern(t)},
          m \in {t \in MonthTexts : MonthPattern(t)},
          d \in {t \in DayTexts : DayPattern(t)} }

\* http.Error(w, msg, code): WriteHeader(code), which only the first call of
\* a response decides, then the message is written to the body
HttpError(w, msg, code) ==
    [status |-> IF w.status = 0 THEN code ELSE w.status,
     body |-> Append(w.body, [kind |-> "text", text |-> msg, stocks |-> <<>>])]

\* json.NewEncoder(w).Encode(&stocks): the first Write sends the header with
\* StatusOK when no header was written yet
Encode(w, v) ==
    [status |-> IF w.status = 0 THEN StatusOK ELSE w.status,
     body |-> Append(w.body, [kind |-> "json", text |-> NoErr, stocks |-> v])]

\* what s.g.Get(list, d) returns when the site answers r: no entry ever holds
\* data, so a call with a valid date always fetches
GetReturn(l, d, clock, r) ==
    LET u == dataURL(l, d, clock)
    IN  IF u.err # NoErr THEN [results |-> <<>>, err |-> u.err]
        ELSE IF r.Error # NoErr THEN [results |-> <<>>, err |-> r.Error]
        ELSE IF r.StatusCode # StatusOK THEN [results |-> <<>>, err |-> ErrStatus]
        ELSE parseTable(Published(u.url))

HandlerInit ==
    /\ hpc = "start"
    /\ hlist \in MoverLists
    /\ hpath \in Routed
    /\ hd = NoDate /\ herr = NoErr /\ hstocks = <<>>
    /\ hgets = 0 /\ hstatus = 0 /\ hbody = <<>>
    /\ now = NowHi
    /\ CacheIdle /\ DateIdle /\ ParseIdle

\* the three strconv.Atoi of the path variables and NewDate, each followed
\* by if err != nil { http.Error(w, err.Error(), http.StatusBadRequest) }
\* with no return
HParse ==
    LET year == Atoi(hpath.year)
        month == Atoi(hpath.month)
        day == Atoi(hpath.day)
        w0 == [status |-> hstatus, body |-> hbody]
        w1 == IF year.err # NoErr THEN HttpError(w0, year.err, StatusBadRequest) ELSE w0
        w2 == IF month.err # NoErr THEN HttpError(w1, month.err, StatusBadRequest) ELSE w1
        w3 == IF day.err # NoErr THEN HttpError(w2, day.err, StatusBadRequest) ELSE w2
        nd == NewDate(year.v, month.v, day.v, now)
        w4 == IF nd.err # NoErr THEN HttpError(w3, nd.err, StatusBadRequest) ELSE w3
    IN  /\ hpc = "start"
        /\ hd' = nd.d
        /\ herr' = nd.err
        /\ hstatus' = w4.status
        /\ hbody' = w4.body
        /\ hpc' = "dated"
        /\ UNCHANGED <<hlist, hpath, hstocks, hgets, cvars, now, dvars, pvars>>

\* stocks, err := s.g.Get(list, d); if err != nil { http.Error(w,
\* err.Error(), http.StatusFailedDependency) } with no return.  A panic
\* inside Get ends the handler: net/http recovers it and drops the connection.
HGet(r) ==
    LET out == GetReturn(hlist, hd, now, r)
        w0 == [status |-> hstatus, body |-> hbody]
        w1 == IF out.err # NoErr
              THEN HttpError(w0, out.err, StatusFailedDependency) ELSE w0
    IN  /\ hpc = "dated"
        /\ hgets' = hgets + 1
        /\ IF out.err = ErrPanic
           THEN /\ hpc' = "panicked"
                /\ UNCHANGED <<hstocks, herr, hstatus, hbody>>
           ELSE /\ hstocks' = out.results
                /\ herr' = out.err
                /\ hstatus' = w1.status
                /\ hbody' = w1.body
                /\ hpc' = "got"
        /\ UNCHANGED <<hlist, hpath, hd, cvars, now, dvars, pvars>>

\* w.Header().Set(`content-type`, `application/json`);
\* json.NewEncoder(w).Encode(&stocks)
HEncode ==
    LET w == Encode([status |-> hstatus, body |-> hbody], hstocks)
    IN  /\ hpc = "got"
        /\ hstatus' = w.status
        /\ hbody' = w.body
        /\ hpc' = "written"
        /\ UNCHANGED <<hlist, hpath, hd, herr, hstocks, hgets, cvars, now, dvars, pvars>>

HandlerNext ==
    \/ HParse
    \/ \E r \in Responses : HGet(r)
    \/ HEncode

\* the body holds a JSON payload
WroteJSON == \E i \in 1..Len(hbody) : hbody[i].kind = "json"

\* C18: a handler renders one outcome per request: when the path or NewDate
\* fails it writes 400, does not call Getter.Get and writes no JSON payload;
\* when Get fails it writes 424 and no JSON payload; the JSON array is
\* written only when Get succeeded.
C18_OneOutcomePerRequest ==
    /\ hstatus = StatusBadRequest => (hgets = 0 /\ ~WroteJSON)
    /\ hstatus = StatusFailedDependency => ~WroteJSON
    /\ WroteJSON => (hstatus = StatusOK /\ hgets = 1 /\ herr = NoErr)
    /\ hpc = "written" => Len(hbody) = 1

----------------------------------------------------------------------------
(* Claims about cache.Get, under Spec *)

InGet(p) == pc[p] # "idle"

\* the call of p sent a request and came back with results and no error
FetchedOK(p) ==
    pc[p] = "done" /\ res[p].StatusCode = StatusOK /\ err[p] = NoErr

\* the fetch or the parse of the call of p failed
FetchFailed(p) ==
    /\ pc[p] = "done" /\ addr[p] # NoURL
    /\ \/ res[p].Error # NoErr
       \/ res[p].StatusCode \notin {0, StatusOK}
       \/ res[p].StatusCode = StatusOK /\ parseTable(Published(addr[p])).err # NoErr

\* p holds the map lock and waits for an entry lock somebody else holds
BlockedOnEntry(p) ==
    cmu = p /\ pc[p] = "vlock" /\ cdata[addr[p]].mu # 0

\* C1: N concurrent Get calls for one key, the producer succeeding, cause
\* exactly one outbound fetch in all, and all callers get the same result:
\* of two calls for one key that are in Get together and both succeed, at
\* most one has fetched.
C1_SingleFlight ==
    \A p \in Callers, q \in Callers :
        (p # q /\ addr[p] = addr[q] /\ FetchedOK(p) /\ pc[q] = "done" /\ err[q] = NoErr)
        => (~FetchedOK(q) /\ results[p] = results[q])

\* C2: Get calls for two distinct keys never block each other: a caller that
\* waits for the map lock for its key never waits behind a caller that holds
\* the map lock while itself waiting for the entry of another key, whose
\* fetch is in flight.
C2_DistinctKeysIndependent ==
    \A p \in Callers, q \in Callers :
        ~ ( /\ BlockedOnEntry(p)
            /\ pc[cdata[addr[p]].mu] = "fetching"
            /\ pc[q] = "lock"
            /\ dataURL(list[q], date[q], now).err = NoErr
            /\ dataURL(list[q], date[q], now).url # addr[p] )

\* C3: once a Get for a key has completed successfully, no later Get for the
\* key performs an outbound fetch, so a key is fetched successfully at most
\* once.
C3_FetchedAtMostOnce ==
    \A p \in Callers : pc[p] = "fetching" => addr[p] \notin succeeded

\* C4: a Get whose fetch fails (transport error, status other than 200) or
\* whose parse fails returns the error and leaves the entry of the key with
\* no stored result; the next Get for the key fetches again.
C4_FailureNotCached ==
    /\ [](\A p \in Callers :
            FetchFailed(p) => (err[p] # NoErr /\ cdata[addr[p]].data = <<>>))
    /\ [][\A q \in Callers :
            (pc[q] = "check" /\ addr[q] \in failed /\ pc'[q] # "check")
            => pc'[q] = "fetching"]_vars

C4_Witness ==
    \E p \in Callers, q \in Callers :
        /\ FetchFailed(p) /\ res[p].StatusCode \notin {0, StatusOK}
        /\ pc[q] = "fetching" /\ addr[q] = addr[p] /\ addr[q] \in failed

\* C10: the map lock is held by a caller only during its own lookup/insert:
\* no caller holds it while blocked on an entry lock, nor while its fetch or
\* parse runs.
C10_MapLockNotHeldAcrossWait ==
    \A p \in Callers :
        cmu = p => (~BlockedOnEntry(p) /\ pc[p] \notin {"check", "fetching"})

\* p is past val.Lock() and has not yet run the deferred val.Unlock()
PastEntryLock(p) == pc[p] \in {"check", "fetching"}

\* C11: per-key mutual exclusion: at most one caller is past the entry-lock
\* acquisition for a key, and it is the owner of the entry's mutex, so at
\* most one outbound fetch for a key is in flight.
C11_PerKeyMutualExclusion ==
    \A p \in Callers :
        PastEntryLock(p) =>
            /\ cdata[addr[p]].mu = p
            /\ \A q \in Callers \ {p} : PastEntryLock(q) => addr[q] # addr[p]

C11_Witness ==
    \E p \in Callers, q \in Callers :
        /\ pc[p] = "fetching" /\ pc[q] = "vlock" /\ addr[q] = addr[p]

\* C12: completion is tracked apart from emptiness: after a fetch for a key
\* has succeeded with zero records, a later Get for the key returns the
\* empty result without another fetch.
C12_EmptyResultCached ==
    \A p \in Callers :
        (addr[p] \in succeeded /\ ParsedPage[addr[p]] = NoOut)
        => pc[p] # "fetching"

\* C13: the cache is append-only and entries are write-once: a key that is
\* in the map stays in it with its entry (a mutex that is held is only
\* released, by its owner as it returns), and a stored result is never
\* changed or cleared.
C13_AppendOnly ==
    [][\A k \in DOMAIN cdata :
          /\ k \in DOMAIN cdata'
          /\ cdata[k].data # <<>> => cdata'[k].data = cdata[k].data
          /\ (cdata[k].mu # 0 /\ cdata'[k].mu # cdata[k].mu)
             => (cdata'[k].mu = 0 /\ pc[cdata[k].mu] # "done"
                   /\ pc'[cdata[k].mu] = "done")]_vars

C13_Witness ==
    \E p \in Callers :
        /\ pc[p] = "vlock" /\ cdata[addr[p]].mu \notin {0, p}
        /\ Cardinality(DOMAIN cdata) >= 2

\* C14: one Get sends at most one request: exactly one when the date is
\* valid and the entry holds no result, none on a hit or on a validation
\* failure; a failed attempt is not repeated within the call.
C14_AtMostOneFetchPerCall ==
    \A p \in Callers :
        /\ sent[p] <= 1
        /\ pc[p] = "fetching" => sent[p] = 1
        /\ pc[p] = "done" =>
               sent[p] = (IF addr[p] = NoURL THEN 0
                          ELSE IF Len(cdata[addr[p]].data) > 0 THEN 0
                          ELSE 1)

C14_Witness ==
    \E p \in Callers, q \in Callers :
        /\ pc[p] = "done" /\ err[p] = ErrNet /\ sent[p] = 1
        /\ pc[q] = "done" /\ err[q] = ErrWeekend /\ sent[q] = 0

\* C19: a Get whose date Validate rejects returns the validation error and
\* leaves the cache as it was: no entry created, no entry lock taken, no
\* request sent, the map lock free once it has returned; and such a call is
\* never found past the validation.
C19_InvalidDateLeavesCacheUnchanged ==
    /\ [](\A p \in Callers :
             pc[p] \in {"vlock", "check", "fetching"}
             => Validate(date[p], now) = NoErr)
    /\ [][\A p \in Callers :
             (pc[p] = "lock" /\ pc'[p] # "lock" /\ Validate(date[p], now) # NoErr)
             => /\ pc'[p] = "done"
                /\ err'[p] = Validate(date[p], now)
                /\ results'[p] = <<>>
                /\ cdata' = cdata
                /\ cmu' = 0
                /\ sent'[p] = 0]_vars

C19_Witness ==
    \E p \in Callers :
        /\ pc[p] = "done" /\ err[p] = ErrWeekend /\ addr[p] = NoURL
        /\ cmu = 0 /\ DOMAIN cdata # {}

\* p is not inside Get: it has not called, or its call has returned
Returned(p) == pc[p] \in {"idle", "done"}

\* every caller has returned from Get
AllReturned == \A p \in Callers : Returned(p)

\* neither the map lock nor an entry lock is held
NoLockHeld == cmu = 0 /\ \A k \in DOMAIN cdata : cdata[k].mu = 0

\* C20: with every fetch ending and a fair scheduler every Get call returns
\* (no caller stays inside Get for ever: time and again it is found outside),
\* and once all calls have returned neither the map lock nor any entry lock
\* is held.
C20_GetReturnsAndLocksFree ==
    /\ \A p \in Callers : []<>Returned(p)
    /\ [](AllReturned => NoLockHeld)

C20_Witness ==
    \E p \in Callers, q \in Callers, r \in Callers :
        /\ pc[p] = "fetching" /\ pc[q] = "vlock" /\ addr[q] = addr[p]
        /\ pc[r] = "lock" /\ cmu = q

SpecDate == DateInit /\ [][DateNext]_vars

SpecParse == ParseInit /\ [][ParseNext]_vars

SpecHandler == HandlerInit /\ [][HandlerNext]_vars

====
